---- MODULE Spec2Model ----
(***************************************************************************)
(* Model of hexl/number-theory/number-theory.hpp: the MultiplyFactor and   *)
(* Modulus value objects and the Barrett reduction family.                 *)
(*                                                                         *)
(* A uint64_t (and every wider intermediate) is a natural number written   *)
(* as a little-endian sequence of base-256 digits without leading zero     *)
(* digits (zero is <<>>), so that the 64-bit and 128-bit arithmetic of the *)
(* source keeps its true width.                                            *)
(***************************************************************************)
EXTENDS Integers, Sequences, FiniteSets, TLC

VARIABLES mod, pc, call, ret

vars == <<mod, pc, call, ret>>

-----------------------------------------------------------------------------
(* Natural-number arithmetic on digit sequences.                           *)

Base == 2 ^ 8

Tuple(f, n) == SubSeq(f, 1, n)

RECURSIVE Nat2Big(_)
Nat2Big(n) == IF n = 0 THEN <<>> ELSE <<n % Base>> \o Nat2Big(n \div Base)

RECURSIVE Big2Nat(_)
Big2Nat(a) == IF a = <<>> THEN 0 ELSE Head(a) + Base * Big2Nat(Tail(a))

RECURSIVE Trim(_)
Trim(a) == IF a = <<>> \/ a[Len(a)] # 0 THEN a ELSE Trim(SubSeq(a, 1, Len(a) - 1))

Digit(a, i) == IF i <= Len(a) THEN a[i] ELSE 0

MaxOf(i, j) == IF i >= j THEN i ELSE j

RECURSIVE AddFrom(_, _, _, _)
AddFrom(a, b, i, c) ==
  IF i > MaxOf(Len(a), Len(b))
  THEN (IF c = 0 THEN <<>> ELSE <<c>>)
  ELSE LET s == Digit(a, i) + Digit(b, i) + c
       IN <<s % Base>> \o AddFrom(a, b, i + 1, s \div Base)

Add(a, b) == AddFrom(a, b, 1, 0)

RECURSIVE SubFrom(_, _, _, _)
SubFrom(a, b, i, c) ==
  IF i > Len(a) THEN <<>>
  ELSE LET s == Digit(a, i) - Digit(b, i) - c
       IN IF s < 0 THEN <<s + Base>> \o SubFrom(a, b, i + 1, 1)
                   ELSE <<s>> \o SubFrom(a, b, i + 1, 0)

\* a - b for a >= b
Sub(a, b) == Trim(SubFrom(a, b, 1, 0))

RECURSIVE CmpFrom(_, _, _)
CmpFrom(a, b, i) ==
  IF i = 0 THEN 0
  ELSE IF a[i] < b[i] THEN -1
  ELSE IF a[i] > b[i] THEN 1
  ELSE CmpFrom(a, b, i - 1)

Cmp(a, b) == IF Len(a) < Len(b) THEN -1
             ELSE IF Len(a) > Len(b) THEN 1
             ELSE CmpFrom(a, b, Len(a))

Less(a, b) == Cmp(a, b) < 0
Leq(a, b) == Cmp(a, b) <= 0

RECURSIVE ColSum(_, _, _, _)
ColSum(a, b, k, i) ==
  IF i > Len(a) \/ i > k THEN 0
  ELSE a[i] * Digit(b, k - i + 1) + ColSum(a, b, k, i + 1)

RECURSIVE Carry(_, _, _)
Carry(cols, i, c) ==
  IF i > Len(cols) THEN (IF c = 0 THEN <<>> ELSE Nat2Big(c))
  ELSE LET s == cols[i] + c
       IN <<s % Base>> \o Carry(cols, i + 1, s \div Base)

Mul(a, b) ==
  IF a = <<>> \/ b = <<>> THEN <<>>
  ELSE Trim(Carry(Tuple([k \in 1..(Len(a) + Len(b)) |-> ColSum(a, b, k, 1)],
                        Len(a) + Len(b)), 1, 0))

Pow2(k) == Tuple([i \in 1..((k \div 8) + 1) |->
                    IF i = (k \div 8) + 1 THEN 2 ^ (k % 8) ELSE 0], (k \div 8) + 1)

\* floor(a / 2^k)
Shr(a, k) ==
  LET d == k \div 8
      p == 2 ^ (k % 8)
      n == Len(a) - d
  IN IF n <= 0 THEN <<>>
     ELSE Trim(Tuple([i \in 1..n |-> (a[i + d] \div p)
                                     + (Digit(a, i + d + 1) % p) * (Base \div p)], n))

\* a * 2^k
Shl(a, k) == Mul(a, Pow2(k))

\* largest t in 0..255 with t * d <= r, for r < 256 * d
RECURSIVE QDigit(_, _, _, _)
QDigit(r, d, t, bit) ==
  IF bit = 0 THEN t
  ELSE IF Leq(Mul(d, <<t + bit>>), r) THEN QDigit(r, d, t + bit, bit \div 2)
       ELSE QDigit(r, d, t, bit \div 2)

\* schoolbook long division, most significant digit first; the singleton
\* sets bind each intermediate value once
RECURSIVE LongDiv(_, _, _, _)
LongDivStep(a, d, i, r1, t) ==
  CHOOSE res \in {<<h[1] \o <<t>>, h[2]>> :
                    h \in {LongDiv(a, d, i - 1, Sub(r1, Mul(d, Nat2Big(t))))}} : TRUE

LongDiv(a, d, i, r) ==
  IF i = 0 THEN <<(<<>>), r>>
  ELSE CHOOSE res \in {LongDivStep(a, d, i, r1, QDigit(r1, d, 0, 128)) :
                         r1 \in {Trim(<<a[i]>> \o r)}} : TRUE

\* <<floor(a / d), a mod d>> for d # 0
DivMod(a, d) ==
  CHOOSE res \in {<<Trim(h[1]), h[2]>> : h \in {LongDiv(a, d, Len(a), <<>>)}} : TRUE

Div(a, d) == DivMod(a, d)[1]
Mod(a, d) == DivMod(a, d)[2]

\* number of significant bits of a
BitLen(a) ==
  IF a = <<>> THEN 0
  ELSE 8 * (Len(a) - 1)
       + (CHOOSE n \in 1..8 : 2 ^ (n - 1) <= a[Len(a)] /\ a[Len(a)] < 2 ^ n)

-----------------------------------------------------------------------------
(* 64-bit machine words.                                                   *)

WordBits == 64

Zero == <<>>
One == <<1>>
TwoTo64 == Pow2(WordBits)
MaxU64 == Sub(TwoTo64, One)

\* conversion of a wider value to uint64_t
Trunc64(a) == Trim(SubSeq(a, 1, IF Len(a) < 8 THEN Len(a) ELSE 8))

\* high 64-bit word of a 128-bit value
Hi64(a) == Shr(a, WordBits)

\* uint64_t subtraction a - b, wrapping modulo 2^64
SubU64(a, b) == IF Leq(b, a) THEN Sub(a, b) ELSE Sub(Add(a, TwoTo64), b)

\* uint64_t addition, wrapping modulo 2^64
AddU64(a, b) == Trunc64(Add(a, b))

\* uint64_t multiplication, wrapping modulo 2^64
MulU64(a, b) == Trunc64(Mul(a, b))

\* the uint64_t that an int64_t/uint64_t mixed sum n converts to
U64OfInt(n) == IF n >= 0 THEN Nat2Big(n) ELSE Sub(TwoTo64, Nat2Big(-n))

\* uint64_t left shift v << cnt.  A count outside 0..63 (given here as the
\* integer whose uint64_t conversion is the count) is undefined behaviour:
\* the hardware shift masks the count to six bits, a folded shift yields 0.
ShlU64(v, cnt) ==
  IF 0 <= cnt /\ cnt < WordBits THEN {Trunc64(Shl(v, cnt))}
  ELSE {Trunc64(Shl(v, cnt % WordBits)), Zero}

-----------------------------------------------------------------------------
(* Collaborators declared outside number-theory.hpp (util/check.hpp and    *)
(* util/compiler.hpp), modelled from their documented contracts.           *)

\* outcome of a call: a returned value, or the failure HEXL_CHECK raises
Ok(v) == [raised |-> FALSE, val |-> v]

\* HEXL_CHECK(cond, msg) with cond false: the call ends in a validation error
CheckFailed == [raised |-> TRUE, val |-> <<>>]

\* position of the most significant set bit, x # 0
MSB(x) == BitLen(x) - 1

\* exact 128-bit product as <<prod_hi, prod_lo>>
MultiplyUInt64(x, y) == <<Hi64(Mul(x, y)), Trunc64(Mul(x, y))>>

\* the 128-bit product shifted right by BitShift, converted to uint64_t
MultiplyUInt64Hi(BitShift, x, y) == Trunc64(Shr(Mul(x, y), BitShift))

\* low 64 bits of floor((x1 * 2^64 + x0) / y), y # 0
DivideUInt128UInt64Lo(x1, x0, y) == Trunc64(Div(Add(Shl(x1, WordBits), x0), y))

-----------------------------------------------------------------------------
(* class MultiplyFactor                                                    *)

SupportedBitShifts == {32, 52, 64}

\* MultiplyFactor without the check of bit_shift
MultiplyFactorAnyShift(operand, bit_shift, modulus) ==
  IF ~Leq(operand, modulus) THEN CheckFailed
  ELSE LET op_hi == Shr(operand, WordBits - bit_shift)
           op_lo == IF bit_shift = WordBits THEN Zero
                    ELSE Trunc64(Shl(operand, bit_shift))
       IN Ok([m_operand |-> operand,
              m_barrett_factor |-> DivideUInt128UInt64Lo(op_hi, op_lo, modulus)])

\* MultiplyFactor dividing the low word of operand << bit_shift only
MultiplyFactorLowWord(operand, bit_shift, modulus) ==
  IF ~Leq(operand, modulus) THEN CheckFailed
  ELSE IF bit_shift \notin SupportedBitShifts THEN CheckFailed
  ELSE LET op_lo == IF bit_shift = WordBits THEN Zero
                    ELSE Trunc64(Shl(operand, bit_shift))
       IN Ok([m_operand |-> operand,
              m_barrett_factor |-> DivideUInt128UInt64Lo(Zero, op_lo, modulus)])

\* MultiplyFactor(operand, bit_shift, modulus): the constructed object, or
\* the validation error of its first failing HEXL_CHECK
MultiplyFactor(operand, bit_shift, modulus) ==
  IF ~Leq(operand, modulus) THEN CheckFailed
  ELSE IF bit_shift \notin SupportedBitShifts THEN CheckFailed
  ELSE LET op_hi == Shr(operand, WordBits - bit_shift)
           op_lo == IF bit_shift = WordBits THEN Zero
                    ELSE Trunc64(Shl(operand, bit_shift))
       IN Ok([m_operand |-> operand,
              m_barrett_factor |-> DivideUInt128UInt64Lo(op_hi, op_lo, modulus)])

\* floor(log2(x))
Log2(x) == MSB(x)

\* MaximumValue(bits) for bits <= 64
MaximumValue(bits) ==
  IF bits = WordBits THEN MaxU64 ELSE Sub(Pow2(bits), One)

-----------------------------------------------------------------------------
(* class Modulus                                                           *)

beta == -2
alpha == 62

\* the statements of Initialize after the MultiplyFactor expression has been
\* evaluated to mf: a raised check leaves m_barr_lo as it was
InitializeWith(obj, mf) ==
  IF mf.raised THEN [obj |-> obj, raised |-> TRUE]
  ELSE [obj |-> [obj EXCEPT !.m_barr_lo = mf.val.m_barrett_factor], raised |-> FALSE]

\* Modulus::Initialize(value) run on the object old, value # 0: the possible
\* outcomes, each the object's fields afterwards and whether a check raised
Initialize(old, value) ==
  LET ceil_log_mod == Log2(value) + 1
      obj == [old EXCEPT !.m_modulus = value,
                         !.m_prod_right_shift = U64OfInt(ceil_log_mod + beta)]
  IN {InitializeWith(obj, mf) :
        mf \in {MultiplyFactor(operand, WordBits, value) :
                  operand \in ShlU64(One, ceil_log_mod + alpha - WordBits)}}

\* the fields of a Modulus before Initialize has written them
Indeterminate == [m_modulus |-> Zero, m_barr_lo |-> Zero, m_prod_right_shift |-> Zero]

\* explicit Modulus(value): the constructed objects; a raised check
\* constructs none
ModulusCtor(value) == {o.obj : o \in {i \in Initialize(Indeterminate, value) : ~i.raised}}

-----------------------------------------------------------------------------
(* BarrettReduce128 and MultiplyMod(x, y, Modulus)                         *)

\* BarrettReduce128 once x_hi << (64 - RightShift()) has produced hi_part
BarrettReduce128With(hi_part, x_lo, m) ==
  LET c1 == AddU64(Shr(x_lo, Big2Nat(m.m_prod_right_shift)), hi_part)
      q_hat == MultiplyUInt64(c1, m.m_barr_lo)[1]
  IN CHOOSE r \in {IF Leq(m.m_modulus, Z) THEN Sub(Z, m.m_modulus) ELSE Z :
                     Z \in {SubU64(x_lo, MulU64(q_hat, m.m_modulus))}} : TRUE

\* BarrettReduce128(x_hi, x_lo, mod) for RightShift() < 64: the set of
\* values it can return
BarrettReduce128(x_hi, x_lo, m) ==
  {BarrettReduce128With(hi_part, x_lo, m) :
     hi_part \in ShlU64(x_hi, WordBits - Big2Nat(m.m_prod_right_shift))}

\* MultiplyMod(x, y, mod)
MultiplyMod(x, y, m) ==
  UNION {BarrettReduce128(prod[1], prod[2], m) : prod \in {MultiplyUInt64(x, y)}}

-----------------------------------------------------------------------------
(* MultiplyModLazy, BarrettReduce64, ReduceMod                             *)

\* MultiplyModLazy<BitShift>(x, y_operand, y_barrett_factor, modulus)
MultiplyModLazy(BitShift, x, y_operand, y_barrett_factor, modulus) ==
  IF ~Less(y_operand, modulus) THEN CheckFailed
  ELSE IF ~Leq(modulus, MaximumValue(BitShift)) THEN CheckFailed
  ELSE IF ~Leq(x, MaximumValue(BitShift)) THEN CheckFailed
  ELSE LET Q == MultiplyUInt64Hi(BitShift, x, y_barrett_factor)
       IN Ok(SubU64(MulU64(y_operand, x), MulU64(Q, modulus)))

\* MultiplyModLazy<BitShift>(x, y, modulus)
MultiplyModLazy3(BitShift, x, y, modulus) ==
  IF ~(BitShift = 64 \/ BitShift = 52) THEN CheckFailed
  ELSE IF ~Leq(x, MaximumValue(BitShift)) THEN CheckFailed
  ELSE IF ~Less(y, modulus) THEN CheckFailed
  ELSE IF ~Leq(modulus, MaximumValue(BitShift)) THEN CheckFailed
  ELSE CHOOSE r \in {IF mf.raised THEN CheckFailed
                     ELSE MultiplyModLazy(BitShift, x, y, mf.val.m_barrett_factor, modulus) :
                       mf \in {MultiplyFactor(y, BitShift, modulus)}} : TRUE

\* BarrettReduce64 returning the lazy difference for every OutputModFactor
BarrettReduce64NoSubtract(OutputModFactor, input, modulus, q_barr) ==
  IF modulus = Zero THEN CheckFailed
  ELSE Ok(SubU64(input, MulU64(MultiplyUInt64Hi(64, input, q_barr), modulus)))

\* BarrettReduce64<OutputModFactor>(input, modulus, q_barr)
BarrettReduce64(OutputModFactor, input, modulus, q_barr) ==
  IF modulus = Zero THEN CheckFailed
  ELSE CHOOSE r \in {IF OutputModFactor = 2 THEN Ok(q_times_input)
                     ELSE IF Leq(modulus, q_times_input)
                          THEN Ok(Sub(q_times_input, modulus))
                          ELSE Ok(q_times_input) :
                       q_times_input \in
                         {SubU64(input, MulU64(MultiplyUInt64Hi(64, input, q_barr), modulus))}} : TRUE

\* a pointer argument: <<>> is nullptr, <<v>> points at the value v
Null == <<>>
PointerTo(v) == <<v>>

\* if (x >= q) { x -= q; }
CondSub(x, q) == IF Leq(q, x) THEN Sub(x, q) ELSE x

InputModFactors == {1, 2, 4, 8}

\* ReduceMod whose InputModFactor == 8 cascade lacks the twice_modulus step
ReduceModSkipTwice(InputModFactor, x, modulus, twice_modulus, four_times_modulus) ==
  IF InputModFactor \notin InputModFactors THEN CheckFailed
  ELSE IF InputModFactor = 1 THEN Ok(x)
  ELSE IF InputModFactor = 2 THEN Ok(CondSub(x, modulus))
  ELSE IF InputModFactor = 4
  THEN IF twice_modulus = Null THEN CheckFailed
       ELSE Ok(CondSub(CondSub(x, twice_modulus[1]), modulus))
  ELSE IF twice_modulus = Null THEN CheckFailed
       ELSE IF four_times_modulus = Null THEN CheckFailed
       ELSE Ok(CondSub(CondSub(x, four_times_modulus[1]), modulus))

\* ReduceMod<InputModFactor>(x, modulus, twice_modulus, four_times_modulus)
ReduceMod(InputModFactor, x, modulus, twice_modulus, four_times_modulus) ==
  IF InputModFactor \notin InputModFactors THEN CheckFailed
  ELSE IF InputModFactor = 1 THEN Ok(x)
  ELSE IF InputModFactor = 2 THEN Ok(CondSub(x, modulus))
  ELSE IF InputModFactor = 4
  THEN IF twice_modulus = Null THEN CheckFailed
       ELSE Ok(CondSub(CondSub(x, twice_modulus[1]), modulus))
  ELSE IF twice_modulus = Null THEN CheckFailed
       ELSE IF four_times_modulus = Null THEN CheckFailed
       ELSE Ok(CondSub(CondSub(CondSub(x, four_times_modulus[1]), twice_modulus[1]),
                       modulus))

-----------------------------------------------------------------------------
(* Inputs.                                                                 *)

\* how far from a power of two, from zero and from a limit the inputs range
MaxDelta == 1

UpTo == {Nat2Big(d) : d \in 0..MaxDelta}

\* 2^k - MaxDelta .. 2^k + MaxDelta
Near(k) ==
  {Add(Pow2(k), e) : e \in UpTo} \cup {Sub(Pow2(k), e) : e \in {f \in UpTo : Leq(f, Pow2(k))}}

\* the 64-bit values near the powers of two with exponents in E
U64Near(E) == {v \in UNION {Near(k) : k \in E} : Less(v, TwoTo64)}

\* 0 .. MaxDelta and limit - MaxDelta .. limit
Edges(limit) ==
  {v \in UpTo : Leq(v, limit)} \cup {Sub(limit, e) : e \in {f \in UpTo : Leq(f, limit)}}

\* the values below modulus at either end of [0, modulus)
Residues(modulus) == IF modulus = Zero THEN {} ELSE Edges(Sub(modulus, One))

ModulusExps == {1, 2, 4, 32, 62, 63, 64}

\* values a Modulus is constructed from or assigned
ModulusValues == {v \in U64Near(ModulusExps) : Leq(One, v)}

\* the value of the Modulus in the initial state
InitialValue == Add(Pow2(4), One)

\* 64-bit halves of a 128-bit input
WordSamples == Edges(MaxU64) \cup {Nat2Big(300)}

-----------------------------------------------------------------------------
(* A Modulus object, its re-assignment, and the calls that take it.        *)

NoCall == [op |-> "none", args |-> <<>>]

Init ==
  /\ mod \in ModulusCtor(InitialValue)
  /\ pc = "idle"
  /\ call = NoCall
  /\ ret = Ok(Zero)

\* mod = value;  (Modulus& operator=(const uint64_t))
Assign(value) ==
  /\ pc = "idle"
  /\ \E o \in Initialize(mod, value) :
       /\ mod' = o.obj
       /\ ret' = IF o.raised THEN CheckFailed ELSE Ok(Zero)
  /\ call' = [op |-> "Assign", args |-> <<value>>]
  /\ pc' = "returned"

\* mod = Modulus(value);  a raised check leaves mod untouched
Construct(value) ==
  /\ pc = "idle"
  /\ \/ \E obj \in ModulusCtor(value) : mod' = obj /\ ret' = Ok(Zero)
     \/ (\E i \in Initialize(Indeterminate, value) : i.raised)
        /\ mod' = mod /\ ret' = CheckFailed
  /\ call' = [op |-> "Construct", args |-> <<value>>]
  /\ pc' = "returned"

\* BarrettReduce128(x_hi, x_lo, mod) on a Modulus whose value exceeds 1
CallBarrettReduce128(x_hi, x_lo) ==
  /\ pc = "idle"
  /\ Less(One, mod.m_modulus)
  /\ \E r \in BarrettReduce128(x_hi, x_lo, mod) : ret' = Ok(r)
  /\ call' = [op |-> "BarrettReduce128", args |-> <<x_hi, x_lo>>]
  /\ pc' = "returned"
  /\ UNCHANGED mod

\* MultiplyMod(x, y, mod) on a Modulus whose value exceeds 1, x, y < modulus
CallMultiplyMod(x, y) ==
  /\ pc = "idle"
  /\ Less(One, mod.m_modulus)
  /\ Less(x, mod.m_modulus) /\ Less(y, mod.m_modulus)
  /\ \E r \in MultiplyMod(x, y, mod) : ret' = Ok(r)
  /\ call' = [op |-> "MultiplyMod", args |-> <<x, y>>]
  /\ pc' = "returned"
  /\ UNCHANGED mod

\* the caller takes the result
Return ==
  /\ pc = "returned"
  /\ pc' = "idle"
  /\ call' = NoCall
  /\ ret' = Ok(Zero)
  /\ UNCHANGED mod

Next ==
  \/ \E value \in ModulusValues : Assign(value)
  \/ \E value \in ModulusValues : Construct(value)
  \/ \E x_hi \in WordSamples, x_lo \in WordSamples : CallBarrettReduce128(x_hi, x_lo)
  \/ \E x \in Residues(mod.m_modulus), y \in Residues(mod.m_modulus) : CallMultiplyMod(x, y)
  \/ Return

Spec == Init /\ [][Next]_vars

-----------------------------------------------------------------------------
(* MultiplyFactor construction.                                            *)

FactorModulusExps == {1, 4, 32, 52, 63, 64}
FactorModuli == {v \in U64Near(FactorModulusExps) : Leq(One, v)}

\* operands at either end of [0, modulus], and just above modulus
FactorOperands(modulus) ==
  {v \in Edges(modulus) \cup {Add(modulus, One)} : Less(v, TwoTo64)}

BitShiftSamples == SupportedBitShifts \cup {0, 16, 63}

\* MultiplyFactor(operand, bit_shift, modulus)
NewMultiplyFactor(operand, bit_shift, modulus) ==
  /\ pc = "idle"
  /\ ret' = MultiplyFactor(operand, bit_shift, modulus)
  /\ call' = [op |-> "MultiplyFactor", args |-> <<operand, bit_shift, modulus>>]
  /\ pc' = "returned"
  /\ UNCHANGED mod

NextFactor ==
  \/ \E modulus \in FactorModuli :
       \E operand \in FactorOperands(modulus), bit_shift \in BitShiftSamples :
         NewMultiplyFactor(operand, bit_shift, modulus)
  \/ Return

SpecFactor == Init /\ [][NextFactor]_vars

-----------------------------------------------------------------------------
(* Lazy multiplication.                                                    *)

LazyModulusExps == {1, 32, 52, 64}
LazyModuli == {v \in U64Near(LazyModulusExps) : Leq(One, v)}

\* x at either end of [0, MaximumValue(BitShift)], and just above it
LazyX(BitShift) ==
  {v \in Edges(MaximumValue(BitShift)) \cup {Pow2(BitShift)} : Less(v, TwoTo64)}

\* y at either end of [0, modulus), and modulus itself
LazyY(modulus) == Residues(modulus) \cup {modulus}

\* MultiplyModLazy<BitShift>(x, y_operand, floor((y_operand << BitShift) / modulus), modulus)
CallMultiplyModLazy(BitShift, x, y_operand, modulus) ==
  /\ pc = "idle"
  /\ \E y_barrett_factor \in {Trunc64(Div(Shl(y_operand, BitShift), modulus))} :
       /\ ret' = MultiplyModLazy(BitShift, x, y_operand, y_barrett_factor, modulus)
       /\ call' = [op |-> "MultiplyModLazy",
                   args |-> <<BitShift, x, y_operand, y_barrett_factor, modulus>>]
  /\ pc' = "returned"
  /\ UNCHANGED mod

\* MultiplyModLazy<BitShift>(x, y, modulus)
CallMultiplyModLazy3(BitShift, x, y, modulus) ==
  /\ pc = "idle"
  /\ ret' = MultiplyModLazy3(BitShift, x, y, modulus)
  /\ call' = [op |-> "MultiplyModLazy3", args |-> <<BitShift, x, y, modulus>>]
  /\ pc' = "returned"
  /\ UNCHANGED mod

\* ReduceMod<2>(r, modulus) on the value r a MultiplyModLazy call returned
ReduceLazy ==
  /\ pc = "returned"
  /\ call.op = "MultiplyModLazy"
  /\ ~ret.raised
  /\ ret' = ReduceMod(2, ret.val, call.args[5], Null, Null)
  /\ call' = [call EXCEPT !.op = "ReduceModOfLazy"]
  /\ UNCHANGED <<pc, mod>>

NextLazy ==
  \/ \E BitShift \in SupportedBitShifts, modulus \in LazyModuli :
       \E x \in LazyX(BitShift), y_operand \in LazyY(modulus) :
         CallMultiplyModLazy(BitShift, x, y_operand, modulus)
  \/ \E BitShift \in SupportedBitShifts, modulus \in LazyModuli :
       \E x \in LazyX(BitShift), y \in LazyY(modulus) :
         CallMultiplyModLazy3(BitShift, x, y, modulus)
  \/ ReduceLazy
  \/ Return

SpecLazy == Init /\ [][NextLazy]_vars

-----------------------------------------------------------------------------
(* BarrettReduce64 and ReduceMod.                                          *)

ReduceModulusExps == {2, 61, 62, 63}
ReduceModuli == U64Near(ReduceModulusExps) \cup {Zero}

\* the 64-bit values near the multiples 0, 1, 2, 4, 8 of modulus
NearMultiples(modulus) ==
  {v \in UNION {{Add(Mul(Nat2Big(k), modulus), e) : e \in UpTo}
                  \cup {Sub(Mul(Nat2Big(k), modulus), e) :
                          e \in {f \in UpTo : Leq(f, Mul(Nat2Big(k), modulus))}} :
                k \in {0, 1, 2, 4, 8}} : Less(v, TwoTo64)}

\* the pointer arguments a caller passes: absent, or at the 64-bit products
PointerPairs(modulus) ==
  {<<Null, Null>>,
   <<PointerTo(MulU64(<<2>>, modulus)), Null>>,
   <<PointerTo(MulU64(<<2>>, modulus)), PointerTo(MulU64(<<4>>, modulus))>>}

\* BarrettReduce64<OutputModFactor>(input, modulus, q_barr), q_barr the
\* 64-bit word holding floor(2^64 / modulus)
CallBarrettReduce64(OutputModFactor, input, modulus) ==
  /\ pc = "idle"
  /\ \E q_barr \in {IF modulus = Zero THEN Zero ELSE Trunc64(Div(TwoTo64, modulus))} :
       /\ ret' = BarrettReduce64(OutputModFactor, input, modulus, q_barr)
       /\ call' = [op |-> "BarrettReduce64",
                   args |-> <<OutputModFactor, input, modulus, q_barr>>]
  /\ pc' = "returned"
  /\ UNCHANGED mod

\* ReduceMod<InputModFactor>(x, modulus, twice_modulus, four_times_modulus)
CallReduceMod(InputModFactor, x, modulus, ptrs) ==
  /\ pc = "idle"
  /\ ret' = ReduceMod(InputModFactor, x, modulus, ptrs[1], ptrs[2])
  /\ call' = [op |-> "ReduceMod",
              args |-> <<InputModFactor, x, modulus, ptrs[1], ptrs[2]>>]
  /\ pc' = "returned"
  /\ UNCHANGED mod

NextReduce ==
  \/ \E OutputModFactor \in {1, 2}, modulus \in ReduceModuli \cup {One} :
       \E input \in NearMultiples(modulus) \cup Edges(MaxU64) :
         CallBarrettReduce64(OutputModFactor, input, modulus)
  \/ \E InputModFactor \in InputModFactors \cup {3}, modulus \in ReduceModuli :
       \E x \in NearMultiples(modulus), ptrs \in PointerPairs(modulus) :
         CallReduceMod(InputModFactor, x, modulus, ptrs)
  \/ Return

SpecReduce == Init /\ [][NextReduce]_vars

-----------------------------------------------------------------------------
(* Properties of the Modulus object and of the calls that take it.         *)

\* the 128-bit value with words x_hi, x_lo
Wide(x_hi, x_lo) == Add(Shl(x_hi, WordBits), x_lo)

\* C1: for every modulus m with 1 < m < 2^64 and all x, y < m,
\* MultiplyMod(x, y, Modulus(m)) returns (x * y) mod m over the unbounded
\* integers.
C1_MultiplyModExact ==
  (pc = "returned" /\ call.op = "MultiplyMod")
    => ret.val = Mod(Mul(call.args[1], call.args[2]), mod.m_modulus)

\* C2: for every Modulus built from m > 1 and every 128-bit input
\* (x_hi, x_lo), BarrettReduce128 returns (x_hi * 2^64 + x_lo) mod m, a
\* value in [0, m).
C2_BarrettReduce128Exact ==
  (pc = "returned" /\ call.op = "BarrettReduce128")
    => /\ ret.val = Mod(Wide(call.args[1], call.args[2]), mod.m_modulus)
       /\ Less(ret.val, mod.m_modulus)

\* the fields of m are those derived from its m_modulus
FieldsDerived(m) ==
  /\ m.m_prod_right_shift = U64OfInt(Log2(m.m_modulus) + 1 - 2)
  /\ \E operand \in ShlU64(One, Log2(m.m_modulus) + 1 + 62 - 64) :
       \E mf \in {MultiplyFactor(operand, 64, m.m_modulus)} :
         ~mf.raised /\ m.m_barr_lo = mf.val.m_barrett_factor

\* C7: in every observable state of a Modulus, also after an assignment that
\* raised a validation error, RightShift() and BarrettFactor() are the ones
\* derived from the current Value().
C7_ModulusFieldsDerived == FieldsDerived(mod)

-----------------------------------------------------------------------------
(* Properties of MultiplyFactor.                                           *)

FactorCall == pc = "returned" /\ call.op = "MultiplyFactor"

\* C6: a MultiplyFactor constructed from (operand, bit_shift, modulus) with
\* operand <= modulus and bit_shift in {32, 52, 64} has BarrettFactor() =
\* floor(operand * 2^bit_shift / modulus) over the unbounded integers and
\* Operand() = operand.
C6_FactorIsFloor ==
  (/\ FactorCall
   /\ Leq(call.args[1], call.args[3])
   /\ call.args[2] \in {32, 52, 64})
    => /\ ~ret.raised
       /\ ret.val.m_barrett_factor = Div(Shl(call.args[1], call.args[2]), call.args[3])
       /\ ret.val.m_operand = call.args[1]

\* C8: constructing a MultiplyFactor with operand > modulus, or with a
\* bit_shift outside {32, 52, 64}, ends in a validation error for every such
\* input; no object is produced.
C8_FactorRejects ==
  (/\ FactorCall
   /\ \/ Less(call.args[3], call.args[1])
      \/ call.args[2] \notin {32, 52, 64})
    => ret.raised /\ ret.val = <<>>

\* an unsupported bit_shift with operand <= modulus has been rejected
C8_Witness ==
  /\ FactorCall
  /\ Leq(call.args[1], call.args[3])
  /\ call.args[2] = 16
  /\ ret.raised

-----------------------------------------------------------------------------
(* Properties of MultiplyModLazy.                                          *)

\* 2^BitShift - 1, the largest value of BitShift bits
MaxOfBits(BitShift) == Sub(Pow2(BitShift), One)

\* the preconditions of MultiplyModLazy<BitShift>(x, y, ., modulus)
LazyRequires(BitShift, x, y, modulus) ==
  /\ Less(y, modulus)
  /\ Leq(modulus, MaxOfBits(BitShift))
  /\ Leq(x, MaxOfBits(BitShift))

\* C3: for BitShift in {32, 52, 64}, under the preconditions and with
\* y_barrett_factor = floor((y_operand << BitShift) / modulus),
\* MultiplyModLazy returns a value in [0, 2 * modulus] that is congruent to
\* x * y_operand modulo modulus.
C3_LazyRangeAndResidue ==
  (/\ pc = "returned" /\ call.op = "MultiplyModLazy"
   /\ LazyRequires(call.args[1], call.args[2], call.args[3], call.args[5])
   /\ call.args[4] = Div(Shl(call.args[3], call.args[1]), call.args[5]))
    => /\ ~ret.raised
       /\ Leq(ret.val, Mul(<<2>>, call.args[5]))
       /\ Mod(ret.val, call.args[5]) = Mod(Mul(call.args[2], call.args[3]), call.args[5])

\* C10: ReduceMod<2> applied to the result of MultiplyModLazy<BitShift>
\* (called within its preconditions, with the exact Barrett factor) equals
\* (x * y_operand) mod modulus.
C10_LazyThenReduceExact ==
  (/\ pc = "returned" /\ call.op = "ReduceModOfLazy"
   /\ call.args[4] = Div(Shl(call.args[3], call.args[1]), call.args[5]))
    => /\ ~ret.raised
       /\ ret.val = Mod(Mul(call.args[2], call.args[3]), call.args[5])

\* C9: MultiplyModLazy<BitShift>(x, y, modulus) fails validation unless
\* BitShift is 52 or 64, and within the preconditions it returns what the
\* four-argument overload returns for the factor
\* floor((y << BitShift) / modulus).
C9_LazyOverloadsAgree ==
  (pc = "returned" /\ call.op = "MultiplyModLazy3")
    => /\ call.args[1] \notin {52, 64} => ret.raised
       /\ (/\ call.args[1] \in {52, 64}
           /\ LazyRequires(call.args[1], call.args[2], call.args[3], call.args[4]))
            => \E four \in {MultiplyModLazy(call.args[1], call.args[2], call.args[3],
                                            Div(Shl(call.args[3], call.args[1]), call.args[4]),
                                            call.args[4])} :
                 /\ ~ret.raised
                 /\ ~four.raised
                 /\ ret.val = four.val

\* the three-argument overload has returned an over-range value for a y whose
\* shifted operand does not fit in the low word
C9_Witness ==
  /\ pc = "returned" /\ call.op = "MultiplyModLazy3"
  /\ call.args[1] = 52
  /\ ~ret.raised
  /\ Leq(Pow2(12), call.args[3])
  /\ Leq(call.args[4], ret.val)

-----------------------------------------------------------------------------
(* Properties of BarrettReduce64 and ReduceMod.                            *)

\* C4: for modulus # 0 and q_barr = floor(2^64 / modulus),
\* BarrettReduce64<2> returns a value in [0, 2 * modulus) congruent to input,
\* BarrettReduce64<1> returns input mod modulus; modulus == 0 fails the
\* validation check.
C4_BarrettReduce64 ==
  (pc = "returned" /\ call.op = "BarrettReduce64")
    => /\ call.args[3] = Zero => ret.raised
       /\ (/\ call.args[3] # Zero
           /\ call.args[4] = Div(TwoTo64, call.args[3]))
            => /\ ~ret.raised
               /\ Mod(ret.val, call.args[3]) = Mod(call.args[2], call.args[3])
               /\ call.args[1] = 2 => Less(ret.val, Mul(<<2>>, call.args[3]))
               /\ call.args[1] = 1 => Less(ret.val, call.args[3])

\* BarrettReduce64<2> has returned a value in [modulus, 2 * modulus): the
\* quotient estimate was one short
C4_Witness ==
  /\ pc = "returned" /\ call.op = "BarrettReduce64"
  /\ call.args[1] = 2
  /\ call.args[3] # Zero
  /\ call.args[4] = Div(TwoTo64, call.args[3])
  /\ ~ret.raised
  /\ Leq(call.args[3], ret.val)

\* the pointer arguments InputModFactor needs point at the exact multiples
PointersExact(InputModFactor, modulus, twice_modulus, four_times_modulus) ==
  /\ InputModFactor \in {4, 8} => twice_modulus = <<Mul(<<2>>, modulus)>>
  /\ InputModFactor = 8 => four_times_modulus = <<Mul(<<4>>, modulus)>>

\* C5: for InputModFactor K in {1, 2, 4, 8} and x < K * modulus, with the
\* pointers at 2 * modulus and 4 * modulus, ReduceMod<K> returns
\* x mod modulus; for K = 1 it returns x.
C5_ReduceMod ==
  (/\ pc = "returned" /\ call.op = "ReduceMod"
   /\ call.args[1] \in {1, 2, 4, 8}
   /\ Less(call.args[2], Mul(Nat2Big(call.args[1]), call.args[3]))
   /\ PointersExact(call.args[1], call.args[3], call.args[4], call.args[5]))
    => /\ ~ret.raised
       /\ ret.val = Mod(call.args[2], call.args[3])
       /\ call.args[1] = 1 => ret.val = call.args[2]

\* ReduceMod<8> has reduced an x in [7 * modulus, 8 * modulus)
C5_Witness ==
  /\ pc = "returned" /\ call.op = "ReduceMod"
  /\ call.args[1] = 8
  /\ Leq(Mul(<<7>>, call.args[3]), call.args[2])
  /\ Less(call.args[2], Mul(<<8>>, call.args[3]))
  /\ PointersExact(8, call.args[3], call.args[4], call.args[5])
  /\ ~ret.raised

====
